---- MODULE Spec2Model ----
(***************************************************************************)
(* Model of the Robot Framework test-case generator                        *)
(* (openAI_anthropic_gemini_robotFramework_testcasesGeneration.py) and of  *)
(* the test-plan generator                                                 *)
(* (openAI_langChain_testPlanGeneration_referMasterJSON.py).               *)
(*                                                                         *)
(* Text is a sequence of tokens: a user-supplied string is a sequence of   *)
(* one-character strings, a literal of the program text (a header, a       *)
(* prefix such as "- ") is a single token.  A report is the sequence of    *)
(* its lines, each line a text.  A JSON value is a record                  *)
(* [t, s, n]: t its Python type, s its text (for a string), n its number   *)
(* (for an int) or its length (for a string, list or dict).                *)
(***************************************************************************)
EXTENDS Integers, Sequences, FiniteSets, TLC

(* scan_file, plan_file: portal_scan_report.json and generated_test_plan.json *)
(* bs4: whether BeautifulSoup can be imported                               *)
(* pc, idx: where generate_all_test_cases is, and the page it is at         *)
(* prov, attempt: the provider generate_test_case is at, and tenacity's try *)
(* tried: the calls generate_test_case has made for the page (history)      *)
(* test_cases: the list of that name; returned: what generate_test_case     *)
(* returned for each page (history); output: generated_test_cases.robot     *)
(* outcome: how the run ended                                               *)
(* ext, result: what the extractors and generate_local_test_case returned   *)
(* page_details: the argument of generate_test_plan (the test-plan script); *)
(* llm_calls: how its model call went for each page (history);              *)
(* plan_result: the list it returned                                        *)
VARIABLES scan_file, plan_file, bs4, pc, idx, prov, attempt, tried,
          test_cases, returned, output, outcome, ext, result,
          page_details, llm_calls, plan_result

vars == <<scan_file, plan_file, bs4, pc, idx, prov, attempt, tried,
          test_cases, returned, output, outcome, ext, result,
          page_details, llm_calls, plan_result>>

(* the variables of generate_test_plan alone *)
planVars == <<page_details, llm_calls, plan_result>>

----------------------------------------------------------------------------
(* Bounds of the model *)
MaxPages == 2
MaxRepeat == 11

(* Program constants *)
MAX_RETRIES == 2
UI_CAP == 10
API_CAP == 10
STATIC_CAP == 5
STORAGE_CAP == 10
STORAGE_LIST_LIMIT == 20
VALUE_TRUNC == 50
LOCATOR_TRUNC == 50
TEXT_TRUNC == 20
API_URL_TRUNC == 80
STATIC_NAME_TRUNC == 50
STORAGE_LINE_TRUNC == 100

----------------------------------------------------------------------------
(* Python string operations *)

Min(a, b) == IF a < b THEN a ELSE b

LowerChar(c) ==
    CASE c = "A" -> "a" [] c = "B" -> "b" [] c = "C" -> "c" [] c = "D" -> "d"
      [] c = "E" -> "e" [] c = "F" -> "f" [] c = "G" -> "g" [] c = "H" -> "h"
      [] c = "I" -> "i" [] c = "J" -> "j" [] c = "K" -> "k" [] c = "L" -> "l"
      [] c = "M" -> "m" [] c = "N" -> "n" [] c = "O" -> "o" [] c = "P" -> "p"
      [] c = "Q" -> "q" [] c = "R" -> "r" [] c = "S" -> "s" [] c = "T" -> "t"
      [] c = "U" -> "u" [] c = "V" -> "v" [] c = "W" -> "w" [] c = "X" -> "x"
      [] c = "Y" -> "y" [] c = "Z" -> "z" [] OTHER -> c

Lower(s) == IF s = <<>> THEN <<>> ELSE [i \in 1..Len(s) |-> LowerChar(s[i])]

Take(s, n) == SubSeq(s, 1, Min(n, Len(s)))

Contains(s, sub) ==
    \E i \in 0..(Len(s) - Len(sub)) : SubSeq(s, i + 1, i + Len(sub)) = sub

StartsWith(s, p) == Len(s) >= Len(p) /\ SubSeq(s, 1, Len(p)) = p

EndsWith(s, p) ==
    Len(s) >= Len(p) /\ SubSeq(s, Len(s) - Len(p) + 1, Len(s)) = p

Positions(s, c) == {i \in 1..Len(s) : s[i] = c}

SetMin(S) == CHOOSE m \in S : \A k \in S : m <= k
SetMax(S) == CHOOSE m \in S : \A k \in S : m >= k

(* s.split(c)[0] *)
SplitFirst(s, c) ==
    IF Positions(s, c) = {} THEN s ELSE SubSeq(s, 1, SetMin(Positions(s, c)) - 1)

(* s.split(c)[-1] *)
SplitLast(s, c) ==
    IF Positions(s, c) = {} THEN s
    ELSE SubSeq(s, SetMax(Positions(s, c)) + 1, Len(s))

Digit(d) ==
    CASE d = 0 -> "0" [] d = 1 -> "1" [] d = 2 -> "2" [] d = 3 -> "3"
      [] d = 4 -> "4" [] d = 5 -> "5" [] d = 6 -> "6" [] d = 7 -> "7"
      [] d = 8 -> "8" [] d = 9 -> "9"

RECURSIVE Digits(_)
Digits(n) == IF n < 10 THEN <<Digit(n)>> ELSE Digits(n \div 10) \o <<Digit(n % 10)>>

Repeat(x, k) == IF k = 0 THEN <<>> ELSE [i \in 1..k |-> x]

----------------------------------------------------------------------------
(* JSON values as Python sees them *)

VStr(s) == [t |-> "str", s |-> s, n |-> Len(s)]
VInt(n) == [t |-> "int", s |-> <<>>, n |-> n]
VNone == [t |-> "none", s |-> <<>>, n |-> 0]
VAbsent == [t |-> "absent", s |-> <<>>, n |-> 0]
VList(n) == [t |-> "list", s |-> <<>>, n |-> n]
VDict(n) == [t |-> "dict", s |-> <<>>, n |-> n]

(* bool(v) *)
Truthy(v) ==
    CASE v.t = "str" -> v.s # <<>>
      [] v.t = "int" -> v.n # 0
      [] v.t \in {"list", "dict"} -> v.n > 0
      [] OTHER -> FALSE

(* d.get(k, default): the value under a key that may be missing *)
GetOr(v, default) == IF v.t = "absent" THEN default ELSE v

(* a or b *)
PyOr(a, b) == IF Truthy(a) THEN a ELSE b

(* str(v), as an f-string renders it *)
PyStr(v) ==
    CASE v.t = "str" -> v.s
      [] v.t = "int" -> Digits(v.n)
      [] v.t = "none" -> <<"N", "o", "n", "e">>
      [] v.t = "list" -> <<"[">> \o Repeat("_", v.n) \o <<"]">>
      [] v.t = "dict" -> <<"{">> \o Repeat("_", v.n) \o <<"}">>
      [] OTHER -> <<>>

(* The outcome of a call: exc is "" when the call returned val *)
Returned(v) == [exc |-> "", val |-> v]
Raised(e) == [exc |-> e, val |-> <<>>]

----------------------------------------------------------------------------
(* extract_ui_elements *)

NoElem ==
    [isdict |-> TRUE, type |-> VAbsent, name |-> VAbsent, id |-> VAbsent,
     cls |-> VAbsent, xpath |-> VAbsent, selector |-> VAbsent,
     locator |-> VAbsent, html |-> VAbsent]

(* elements.append({'type': .., 'name': .., 'locator': ..}) *)
MkElem(type, name, locator) ==
    [NoElem EXCEPT !.type = VStr(type), !.name = name, !.locator = VStr(locator)]

IsButtonTag(tg) ==
    /\ tg.tag \in {"button", "input", "*"}
    /\ (tg.type = VStr(<<"s", "u", "b", "m", "i", "t">>) \/ "btn" \in tg.cls)

ButtonElem(tg) ==
    MkElem(<<"b", "u", "t", "t", "o", "n">>,
           PyOr(PyOr(tg.id, tg.name), VStr(Take(tg.text, TEXT_TRUNC))),
           IF Truthy(tg.id) THEN <<"id:">> \o PyStr(tg.id)
           ELSE <<"text:">> \o Take(tg.text, TEXT_TRUNC))

RECURSIVE MarkupButtons(_)
MarkupButtons(tags) ==
    IF tags = <<>> THEN <<>>
    ELSE (IF IsButtonTag(Head(tags)) THEN <<ButtonElem(Head(tags))>> ELSE <<>>)
         \o MarkupButtons(Tail(tags))

InputElem(tg, count) ==
    MkElem(<<"i", "n", "p", "u", "t">>,
           PyOr(PyOr(tg.id, tg.name), VStr(<<"input-">> \o Digits(count))),
           IF Truthy(tg.name) THEN <<"name:">> \o PyStr(tg.name)
           ELSE <<"id:">> \o PyStr(tg.id))

RECURSIVE MarkupInputs(_, _)
MarkupInputs(tags, elements) ==
    IF tags = <<>> THEN elements
    ELSE MarkupInputs(Tail(tags),
                      IF Head(tags).tag = "input"
                      THEN Append(elements, InputElem(Head(tags), Len(elements)))
                      ELSE elements)

extract_ui_elements(elements_data, have_bs4) ==
    IF ~Truthy(elements_data.v) THEN Returned(<<>>)
    ELSE IF elements_data.v.t = "str"
         THEN IF have_bs4
              THEN Returned(MarkupInputs(elements_data.tags,
                                         MarkupButtons(elements_data.tags)))
              ELSE Returned(<<>>)
         ELSE IF elements_data.v.t = "list" THEN Returned(elements_data.elems)
              ELSE Returned(<<>>)

----------------------------------------------------------------------------
(* extract_network_requests *)

ApiWord == <<"a", "p", "i">>

MkReq(url, method, status) ==
    [url |-> url.s, method |-> method, status |-> status,
     type |-> IF Contains(Lower(url.s), ApiWord) THEN "api" ELSE "resource"]

(* entry.get('url') or entry.get('request', {}).get('url', '') *)
HarUrlRaises(entry) ==
    ~Truthy(GetOr(entry.url, VNone)) /\ entry.request.t \notin {"absent", "dict"}

HarUrl(entry) ==
    PyOr(GetOr(entry.url, VNone),
         IF entry.request.t = "dict" THEN GetOr(entry.request.url, VStr(<<>>))
         ELSE VStr(<<>>))

ListUrl(req) == GetOr(req.url, VStr(<<>>))

EntryUrl(entry, har) == IF har THEN HarUrl(entry) ELSE ListUrl(entry)

(* the exception one entry of the loop raises, "" when it raises none *)
EntryExc(entry, har) ==
    IF ~entry.isdict THEN ""
    ELSE IF har /\ HarUrlRaises(entry) THEN "AttributeError"
    ELSE IF Truthy(EntryUrl(entry, har)) /\ EntryUrl(entry, har).t # "str"
         THEN "AttributeError"
    ELSE ""

EntryReq(entry, har) ==
    IF har
    THEN MkReq(HarUrl(entry), PyOr(GetOr(entry.method, VNone), VStr(<<"G", "E", "T">>)),
               PyOr(GetOr(entry.status, VNone), VInt(0)))
    ELSE MkReq(ListUrl(entry), GetOr(entry.method, VStr(<<"G", "E", "T">>)),
               GetOr(entry.status, VInt(0)))

RECURSIVE CollectRequests(_, _)
CollectRequests(entries, har) ==
    IF entries = <<>> THEN <<>>
    ELSE (IF Head(entries).isdict /\ Truthy(EntryUrl(Head(entries), har))
          THEN <<EntryReq(Head(entries), har)>> ELSE <<>>)
         \o CollectRequests(Tail(entries), har)

LoopRequests(entries, har) ==
    IF \E i \in 1..Len(entries) :
          /\ EntryExc(entries[i], har) # ""
          /\ \A j \in 1..(i - 1) : EntryExc(entries[j], har) = ""
    THEN Raised("AttributeError")
    ELSE Returned(CollectRequests(entries, har))

(* network_data.get('entries', network_data.get('logs', [])) *)
HarEntries(network_data) ==
    GetOr(network_data.entries, GetOr(network_data.logs, VList(0)))

extract_network_requests(network_data) ==
    IF ~Truthy(network_data.v) THEN Returned(<<>>)
    ELSE IF network_data.v.t = "dict"
         THEN IF HarEntries(network_data).t \in {"int", "none"}
              THEN Raised("TypeError")
              ELSE IF HarEntries(network_data).t = "list"
                   THEN LoopRequests(network_data.items, TRUE)
                   ELSE Returned(<<>>)
         ELSE IF network_data.v.t = "list"
              THEN LoopRequests(network_data.items, FALSE)
              ELSE Returned(<<>>)

----------------------------------------------------------------------------
(* extract_local_storage *)

Ellipsis == <<".", ".", ".">>

(* the value shortened to VALUE_TRUNC characters and the ellipsis marker *)
DisplayValue(text) ==
    IF Len(text) > VALUE_TRUNC THEN Take(text, VALUE_TRUNC) \o Ellipsis ELSE text

MkItem(key, text) == [isdict |-> TRUE, key |-> key, value |-> DisplayValue(text)]

(* key.lower().endswith('token') or key == 'user' or key == 'email' *)
SkippedKey(key) ==
    \/ EndsWith(Lower(key), <<"t", "o", "k", "e", "n">>)
    \/ key = <<"u", "s", "e", "r">>
    \/ key = <<"e", "m", "a", "i", "l">>

RECURSIVE StorageFromDict(_)
StorageFromDict(pairs) ==
    IF pairs = <<>> THEN <<>>
    ELSE (IF SkippedKey(Head(pairs).key.s) THEN <<>>
          ELSE <<MkItem(Head(pairs).key, PyStr(Head(pairs).value))>>)
         \o StorageFromDict(Tail(pairs))

RECURSIVE StorageFromList(_)
StorageFromList(items) ==
    IF items = <<>> THEN <<>>
    ELSE (IF Head(items).isdict
          THEN <<MkItem(GetOr(Head(items).key, VStr(<<>>)),
                        PyStr(GetOr(Head(items).value, VStr(<<>>))))>>
          ELSE <<>>)
         \o StorageFromList(Tail(items))

extract_local_storage(storage_data) ==
    IF ~Truthy(storage_data.v) THEN Returned(<<>>)
    ELSE IF storage_data.v.t = "dict"
         THEN Returned(StorageFromDict(storage_data.items))
         ELSE IF storage_data.v.t = "list"
              THEN Returned(StorageFromList(Take(storage_data.items,
                                                 STORAGE_LIST_LIMIT)))
              ELSE Returned(<<>>)

----------------------------------------------------------------------------
(* generate_local_test_case: the UI elements section *)

Range(f) == {f[i] : i \in DOMAIN f}

ElemFields(e) ==
    {e.type, e.name, e.id, e.cls, e.xpath, e.selector, e.locator, e.html}

(* 'a href' in str(element) *)
HasAHref(e) ==
    \E v \in ElemFields(e) :
        v.t = "str" /\ Contains(v.s, <<"a", " ", "h", "r", "e", "f">>)

(* element.get('type', '').lower() raises for a type that is no string *)
TypeRaises(e) == e.isdict /\ e.type.t \notin {"absent", "str"}

ElemType(e) == Lower(GetOr(e.type, VStr(<<>>)).s)

(* the chain with its first two tests exchanged: link before button *)
CategoryLinkFirst(e) ==
    IF Contains(ElemType(e), <<"l", "i", "n", "k">>) \/ HasAHref(e) THEN "link"
    ELSE IF Contains(ElemType(e), <<"b", "u", "t", "t", "o", "n">>) THEN "button"
    ELSE IF Contains(ElemType(e), <<"i", "n", "p", "u", "t">>)
            \/ Contains(ElemType(e), <<"t", "e", "x", "t">>) THEN "input"
    ELSE IF Contains(ElemType(e), <<"s", "e", "l", "e", "c", "t">>)
            \/ Contains(ElemType(e), <<"d", "r", "o", "p", "d", "o", "w", "n">>)
         THEN "dropdown"
    ELSE IF Contains(ElemType(e), <<"c", "h", "e", "c", "k", "b", "o", "x">>)
            \/ Contains(ElemType(e), <<"r", "a", "d", "i", "o">>) THEN "checkbox"
    ELSE "other"

(* the if/elif chain of the categorisation loop *)
Category(e) ==
    IF Contains(ElemType(e), <<"b", "u", "t", "t", "o", "n">>) THEN "button"
    ELSE IF Contains(ElemType(e), <<"l", "i", "n", "k">>) \/ HasAHref(e) THEN "link"
    ELSE IF Contains(ElemType(e), <<"i", "n", "p", "u", "t">>)
            \/ Contains(ElemType(e), <<"t", "e", "x", "t">>) THEN "input"
    ELSE IF Contains(ElemType(e), <<"s", "e", "l", "e", "c", "t">>)
            \/ Contains(ElemType(e), <<"d", "r", "o", "p", "d", "o", "w", "n">>)
         THEN "dropdown"
    ELSE IF Contains(ElemType(e), <<"c", "h", "e", "c", "k", "b", "o", "x">>)
            \/ Contains(ElemType(e), <<"r", "a", "d", "i", "o">>) THEN "checkbox"
    ELSE "other"

RECURSIVE FirstSeen(_, _)
FirstSeen(elems, seen) ==
    IF elems = <<>> THEN seen
    ELSE FirstSeen(Tail(elems),
                   IF Category(Head(elems)) \in Range(seen) THEN seen
                   ELSE Append(seen, Category(Head(elems))))

DictElems(ui_elements) == SelectSeq(ui_elements, LAMBDA e : e.isdict)

InCategory(elems, cat) == SelectSeq(elems, LAMBDA e : Category(e) = cat)

(* the defaultdict, as the sequence of its (category, elements) items *)
element_categories(ui_elements) ==
    LET order == FirstSeen(DictElems(ui_elements), <<>>)
    IN  IF order = <<>> THEN <<>>
        ELSE [i \in 1..Len(order) |->
                 [cat |-> order[i],
                  elems |-> InCategory(DictElems(ui_elements), order[i])]]

(* elem.get('name', elem.get('id', elem.get('class', 'unnamed'))) *)
ElemName(e) ==
    GetOr(e.name, GetOr(e.id, GetOr(e.cls,
          VStr(<<"u", "n", "n", "a", "m", "e", "d">>))))

(* elem.get('id') or elem.get('xpath') or elem.get('selector', '') *)
ElemLocator(e) ==
    PyOr(PyOr(GetOr(e.id, VNone), GetOr(e.xpath, VNone)),
         GetOr(e.selector, VStr(<<>>)))

(* locator[:50] raises for a truthy locator that cannot be sliced *)
LocatorRaises(e) ==
    Truthy(ElemLocator(e)) /\ ElemLocator(e).t \notin {"str", "list"}

LocatorText(loc) ==
    IF loc.t = "str" THEN Take(loc.s, LOCATOR_TRUNC)
    ELSE PyStr(VList(Min(loc.n, LOCATOR_TRUNC)))

ElemLine(e) ==
    <<"- ">> \o PyStr(ElemName(e))
    \o (IF Truthy(ElemLocator(e))
        THEN <<" (Locator: ">> \o LocatorText(ElemLocator(e)) \o <<")">>
        ELSE <<>>)

(* the summary line also when the list is exactly as long as the cap *)
MoreLineFromCap(M, N) ==
    IF M >= N THEN << <<"... plus ">> \o Digits(M - N) \o <<" more">> >> ELSE <<>>

MoreLine(M, N) ==
    IF M > N THEN << <<"... plus ">> \o Digits(M - N) \o <<" more">> >> ELSE <<>>

Shown(items, N) == Take(items, N)

CatUpper(cat) ==
    CASE cat = "button" -> "BUTTON" [] cat = "link" -> "LINK"
      [] cat = "input" -> "INPUT" [] cat = "dropdown" -> "DROPDOWN"
      [] cat = "checkbox" -> "CHECKBOX" [] OTHER -> "OTHER"

CountHeader(title, n) == title \o <<" (">> \o Digits(n) \o <<"):">>

ElemLines(elems) ==
    IF elems = <<>> THEN <<>> ELSE [i \in 1..Len(elems) |-> ElemLine(elems[i])]

CategoryLines(c) ==
    << CountHeader(<<CatUpper(c.cat), "S">>, Len(c.elems)) >>
    \o ElemLines(Shown(c.elems, UI_CAP))
    \o MoreLine(Len(c.elems), UI_CAP)
    \o << <<>> >>

RECURSIVE CategoriesLines(_)
CategoriesLines(cats) ==
    IF cats = <<>> THEN <<>>
    ELSE CategoryLines(Head(cats)) \o CategoriesLines(Tail(cats))

UIHeader == <<"--- UI ELEMENTS CATEGORIZED ---">>
NoUI == <<"No UI elements captured">>

CategorizeRaises(ui_elements) ==
    \E i \in 1..Len(ui_elements) : TypeRaises(ui_elements[i])

RenderRaises(ui_elements) ==
    \E i \in 1..Len(element_categories(ui_elements)) :
          \E j \in 1..Len(Shown(element_categories(ui_elements)[i].elems, UI_CAP)) :
            LocatorRaises(element_categories(ui_elements)[i].elems[j])

UISection(ui_elements) ==
    IF ui_elements # <<>>
    THEN IF CategorizeRaises(ui_elements) THEN Raised("AttributeError")
         ELSE IF RenderRaises(ui_elements) THEN Raised("TypeError")
         ELSE Returned(<<UIHeader, <<>> >>
                       \o CategoriesLines(element_categories(ui_elements)))
    ELSE Returned(<<NoUI, <<>> >>)

----------------------------------------------------------------------------
(* generate_local_test_case: the network requests section *)

ApiPath == <<"/", "a", "p", "i", "/">>

IsApiCall(r) == Contains(Lower(r.url), ApiPath)

(* [r for r in network_requests if '/api/' in r.get('url', '').lower()] *)
ApiCalls(network_requests) == SelectSeq(network_requests, IsApiCall)

(* the static bucket taken from the extractor's 'type' field instead *)
StaticResourcesByType(network_requests, api_calls) ==
    SelectSeq(network_requests, LAMBDA r : r.type # "api")

(* [r for r in network_requests if r not in api_calls] *)
StaticResources(network_requests, api_calls) ==
    SelectSeq(network_requests, LAMBDA r : r \notin Range(api_calls))

ApiLine(r) ==
    <<"- ">> \o PyStr(r.method) \o <<" ">>
    \o Take(SplitFirst(r.url, "?"), API_URL_TRUNC)
    \o (IF Truthy(r.status) THEN <<" (">> \o PyStr(r.status) \o <<")">> ELSE <<>>)

StaticLine(r) == <<"- ">> \o Take(SplitLast(r.url, "/"), STATIC_NAME_TRUNC)

ApiLines(reqs) ==
    IF reqs = <<>> THEN <<>> ELSE [i \in 1..Len(reqs) |-> ApiLine(reqs[i])]

StaticLines(reqs) ==
    IF reqs = <<>> THEN <<>> ELSE [i \in 1..Len(reqs) |-> StaticLine(reqs[i])]

NetHeader == <<"--- NETWORK REQUESTS ---">>
NoNet == <<"No network requests captured">>
ApiTitle == <<"API CALLS">>
StaticTitle == <<"STATIC RESOURCES">>

NetSection(network_requests) ==
    IF network_requests # <<>>
    THEN LET api_calls == ApiCalls(network_requests)
             static_resources == StaticResources(network_requests, api_calls)
         IN  <<NetHeader, <<>>, CountHeader(ApiTitle, Len(api_calls))>>
             \o ApiLines(Shown(api_calls, API_CAP))
             \o MoreLine(Len(api_calls), API_CAP)
             \o <<<<>>, CountHeader(StaticTitle, Len(static_resources))>>
             \o StaticLines(Shown(static_resources, STATIC_CAP))
             \o MoreLine(Len(static_resources), STATIC_CAP)
    ELSE <<NoNet, <<>> >>

----------------------------------------------------------------------------
(* generate_local_test_case: the local storage section *)

sensitive_keys ==
    {<<"t", "o", "k", "e", "n">>, <<"a", "u", "t", "h">>,
     <<"s", "e", "c", "r", "e", "t">>, <<"p", "a", "s", "s", "w", "o", "r", "d">>}

(* str(item.get('key', '')).lower() *)
ItemKey(item) == Lower(PyStr(item.key))

(* any(s in key for s in sensitive_keys) *)
IsSensitive(item) == \E w \in sensitive_keys : Contains(ItemKey(item), w)

IsUserKey(item) ==
    \/ StartsWith(ItemKey(item), <<"u", "s", "e", "r">>)
    \/ StartsWith(ItemKey(item), <<"a", "c", "c", "o", "u", "n", "t">>)
    \/ StartsWith(ItemKey(item), <<"p", "r", "o", "f", "i", "l", "e">>)

UserData(local_storage) ==
    SelectSeq(local_storage, LAMBDA it : ~IsSensitive(it) /\ IsUserKey(it))

AppData(local_storage) ==
    SelectSeq(local_storage, LAMBDA it : ~IsSensitive(it) /\ ~IsUserKey(it))

StorageLine(item) ==
    <<"- ">> \o PyStr(item.key) \o <<": ">> \o Take(item.value, STORAGE_LINE_TRUNC)

ItemLines(items) ==
    IF items = <<>> THEN <<>> ELSE [i \in 1..Len(items) |-> StorageLine(items[i])]

StorageHeader == <<"--- LOCAL STORAGE ---">>
NoStorage == <<"No local storage data captured">>
UserTitle == <<"USER SESSION DATA:">>
AppTitle == <<"APPLICATION PREFERENCES:">>
FilteredNote == <<"FILTERED ITEMS (sensitive data omitted)">>

StorageSection(local_storage) ==
    IF local_storage # <<>>
    THEN <<StorageHeader, <<>>, UserTitle>>
         \o ItemLines(Shown(UserData(local_storage), STORAGE_CAP))
         \o MoreLine(Len(UserData(local_storage)), STORAGE_CAP)
         \o <<<<>>, AppTitle>>
         \o ItemLines(Shown(AppData(local_storage), STORAGE_CAP))
         \o MoreLine(Len(AppData(local_storage)), STORAGE_CAP)
         \o <<<<>>, FilteredNote>>
    ELSE <<NoStorage>>

----------------------------------------------------------------------------
(* load_json and generate_local_test_case *)

NoneData == [v |-> VNone, pages |-> <<>>]

(* the parsed content of a file, None when it cannot be read or parsed *)
load_json(file) ==
    IF file.readable THEN [v |-> file.v, pages |-> file.pages] ELSE NoneData

IsNone(data) == data.v.t = "none"

AbsentUI == [v |-> VAbsent, tags |-> <<>>, elems |-> <<>>]
AbsentNet == [v |-> VAbsent, entries |-> VAbsent, logs |-> VAbsent, items |-> <<>>]
AbsentStorage == [v |-> VAbsent, items |-> <<>>]

(* {} *)
EmptyPage ==
    [t |-> "dict", URL |-> VAbsent,
     InspectElementHTML |-> AbsentUI, elements |-> AbsentUI,
     NetworkRequests |-> AbsentNet, network_requests |-> AbsentNet,
     LocalStorage |-> AbsentStorage, local_storage |-> AbsentStorage]

(* scan_data.get(page, {}) of a mapping *)
PageData(scan_data, page) ==
    IF \E i \in 1..Len(scan_data.pages) : scan_data.pages[i].name = page
    THEN LET i == CHOOSE i \in 1..Len(scan_data.pages) : scan_data.pages[i].name = page
         IN  scan_data.pages[i].data
    ELSE EmptyPage

(* d.get(first, d.get(second, [])) *)
Aliased(first, second, empty) ==
    IF first.v.t # "absent" THEN first
    ELSE IF second.v.t # "absent" THEN second
    ELSE [empty EXCEPT !.v = VList(0)]

UISource(psd) == Aliased(psd.InspectElementHTML, psd.elements, AbsentUI)
NetSource(psd) == Aliased(psd.NetworkRequests, psd.network_requests, AbsentNet)
StorageSource(psd) == Aliased(psd.LocalStorage, psd.local_storage, AbsentStorage)

Title == <<"=== SCAN DATA ANALYSIS ===">>
LoadError == <<"Error: Failed to load test data">>

ReportHead(page, psd) ==
    <<Title, <<"Page: ", page>>,
      <<"URL: ">> \o PyStr(GetOr(psd.URL, VStr(<<"Not available">>))), <<>> >>

(* the body of the try block *)
LocalReportBody(page, scan_data, test_plan, have_bs4) ==
    IF IsNone(scan_data) \/ IsNone(test_plan) THEN Returned(<<Title, LoadError>>)
    ELSE IF scan_data.v.t # "dict" THEN Raised("AttributeError")
    ELSE IF PageData(scan_data, page).t # "dict" THEN Raised("AttributeError")
    ELSE LET psd == PageData(scan_data, page)
             ui == UISection(extract_ui_elements(UISource(psd), have_bs4).val)
             net == extract_network_requests(NetSource(psd))
             st == extract_local_storage(StorageSource(psd))
         IN  IF ui.exc # "" THEN Raised(ui.exc)
             ELSE IF net.exc # "" THEN Raised(net.exc)
             ELSE Returned(ReportHead(page, psd) \o ui.val
                           \o NetSection(net.val) \o StorageSection(st.val))

ErrorReport(page, exc) ==
    <<Title, <<"Error generating report for ", page, ": ", exc>> >>

(* the function without its try/except: the exception leaves it *)
generate_local_unguarded(page, scan_data, test_plan, have_bs4) ==
    LocalReportBody(page, scan_data, test_plan, have_bs4)

(* except Exception as e: return the error string *)
generate_local_test_case(page, scan_data, test_plan, have_bs4) ==
    LET r == LocalReportBody(page, scan_data, test_plan, have_bs4)
    IN  IF r.exc # "" THEN Returned(ErrorReport(page, r.exc)) ELSE r

----------------------------------------------------------------------------
(* Inputs: the scan records the checks draw from *)

(* the texts of the inputs *)
KeyAuthToken == <<"a", "u", "t", "h", "T", "o", "k", "e", "n">>
KeyEmail == <<"e", "m", "a", "i", "l">>
KeyMySecret == <<"m", "y", "S", "e", "c", "r", "e", "t">>
KeyPassword == <<"P", "a", "s", "s", "w", "o", "r", "d">>
KeyPref == <<"p", "r", "e", "f">>
KeyTheme == <<"t", "h", "e", "m", "e">>
KeyToken == <<"T", "O", "K", "E", "N">>
KeyTokenAuth == <<"t", "o", "k", "e", "n", "_", "a", "u", "t", "h">>
KeyUser == <<"u", "s", "e", "r">>
KeyUserName == <<"u", "s", "e", "r", "N", "a", "m", "e">>
TxtAnchor == <<"<", "a", " ", "h", "r", "e", "f", "=", "x", ">">>
TxtButton == <<"b", "u", "t", "t", "o", "n">>
TxtClick == <<"C", "l", "i", "c", "k">>
TxtDark == <<"d", "a", "r", "k">>
TxtGo == <<"g", "o">>
TxtGoText == <<"G", "o">>
TxtHome == <<"H", "o", "m", "e">>
TxtHomeSelector == <<"a", ".", "h", "o", "m", "e">>
TxtLink == <<"L", "i", "n", "k">>
TxtPost == <<"P", "O", "S", "T">>
TxtQ == <<"q">>
TxtRadio == <<"r", "a", "d", "i", "o">>
TxtRadioSelect == <<"R", "a", "d", "i", "o", "-", "S", "e", "l", "e", "c", "t">>
TxtSelect == <<"s", "e", "l", "e", "c", "t">>
TxtSubmit == <<"s", "u", "b", "m", "i", "t">>
TxtSubmitLocator ==
    <<"i", "d", ":", "s", "u", "b", "m", "i", "t", "-", "b", "t", "n">>
TxtSubmitName == <<"S", "u", "b", "m", "i", "t">>
TxtText == <<"t", "e", "x", "t">>
UrlCapital ==
    <<"h", "t", "t", "p", "s", ":", "/", "/", "x", "/", "i", "m", "g", "/", "c", "a", "p", "i", "t", "a", "l", ".", "p", "n", "g">>
UrlLogin ==
    <<"h", "t", "t", "p", "s", ":", "/", "/", "x", "/", "a", "p", "i", "/", "l", "o", "g", "i", "n">>
UrlNested == <<"/", "a", "p", "i", "/", "v">>
UrlRoot == <<"h", "t", "t", "p", "s", ":", "/", "/", "x", "/">>
UrlUsers ==
    <<"h", "t", "t", "p", "s", ":", "/", "/", "x", "/", "A", "P", "I", "/", "u", "s", "e", "r", "s", "?", "i", "d", "=", "1">>

SeqsUpTo(S, n) == UNION {[1..k -> S] : k \in 0..n}

Long(c, k) == Repeat(c, k)

(* parsed markup: the tags BeautifulSoup finds, in document order *)
Tag(tag, type, cls, id, name, text) ==
    [tag |-> tag, type |-> type, cls |-> cls, id |-> id, name |-> name, text |-> text]

Tags ==
    {Tag("button", VStr(TxtSubmit), {}, VStr(TxtGo), VNone, TxtGoText),
     Tag("button", VStr(TxtSubmit), {}, VNone, VNone, <<>>),
     Tag("input", VStr(TxtText), {}, VNone, VNone, <<>>),
     Tag("input", VStr(TxtSubmit), {}, VNone, VStr(TxtQ), <<>>),
     Tag("div", VNone, {"btn"}, VNone, VNone, TxtClick),
     Tag("button", VNone, {"btn", "big"}, VNone, VNone, Long("w", TEXT_TRUNC + 1)),
     Tag("a", VNone, {}, VNone, VNone, TxtHome)}

Markup(tags) == [v |-> VStr(<<"<", ">">>), tags |-> tags, elems |-> <<>>]

Elem(type, name, id, xpath, selector, locator, html) ==
    [NoElem EXCEPT !.type = type, !.name = name, !.id = id, !.xpath = xpath,
                   !.selector = selector, !.locator = locator, !.html = html]

NonDictElem == [NoElem EXCEPT !.isdict = FALSE]

SubmitButton ==
    Elem(VStr(TxtButton), VStr(TxtSubmitName), VAbsent, VAbsent, VAbsent,
         VStr(TxtSubmitLocator), VAbsent)

Elems ==
    {SubmitButton,
     Elem(VStr(TxtLink), VStr(TxtHome), VAbsent, VAbsent, VStr(TxtHomeSelector),
          VAbsent, VAbsent),
     Elem(VStr(TxtText), VAbsent, VStr(TxtQ), VAbsent, VAbsent, VAbsent, VAbsent),
     Elem(VStr(TxtSelect), VStr(<<>>), VAbsent, VStr(Long("x", LOCATOR_TRUNC + 1)),
          VAbsent, VAbsent, VAbsent),
     Elem(VAbsent, VAbsent, VAbsent, VAbsent, VAbsent, VAbsent, VStr(TxtAnchor)),
     Elem(VStr(TxtRadio), VNone, VAbsent, VAbsent, VList(2), VAbsent, VAbsent),
     Elem(VInt(5), VStr(TxtQ), VAbsent, VAbsent, VAbsent, VAbsent, VAbsent),
     Elem(VStr(TxtButton), VStr(TxtGo), VInt(7), VAbsent, VAbsent, VAbsent, VAbsent),
     Elem(VStr(TxtButton), VStr(TxtGo), VAbsent, VAbsent, VAbsent, VAbsent,
          VStr(TxtAnchor)),
     Elem(VStr(TxtText), VStr(TxtQ), VAbsent, VAbsent, VAbsent, VAbsent, VStr(TxtAnchor)),
     Elem(VStr(TxtRadioSelect), VStr(TxtQ), VAbsent, VAbsent, VAbsent, VAbsent, VAbsent),
     NonDictElem}

ElemList(elems) == [v |-> VList(Len(elems)), tags |-> <<>>, elems |-> elems]

OtherUI(v) == [v |-> v, tags |-> <<>>, elems |-> <<>>]

UISources ==
    {AbsentUI, OtherUI(VNone), OtherUI(VStr(<<>>)), OtherUI(VInt(5)), OtherUI(VDict(1))}
    \cup {Markup(t) : t \in SeqsUpTo(Tags, 2)}
    \cup {ElemList(e) : e \in SeqsUpTo(Elems, 2)}
    \cup {ElemList(Repeat(e, k) \o t) :
             e \in {SubmitButton, NonDictElem}, k \in UI_CAP..MaxRepeat,
             t \in SeqsUpTo({SubmitButton, NonDictElem}, 1)}

UIFew == {AbsentUI, ElemList(<<SubmitButton>>)}

NoRequest == [t |-> "absent", url |-> VAbsent]

Entry(url, method, status, request) ==
    [isdict |-> TRUE, url |-> url, method |-> method, status |-> status,
     request |-> request]

NonDictEntry == [Entry(VAbsent, VAbsent, VAbsent, NoRequest) EXCEPT !.isdict = FALSE]

LoginCall == Entry(VStr(UrlLogin), VStr(TxtPost), VInt(200), NoRequest)
CapitalImage == Entry(VStr(UrlCapital), VAbsent, VAbsent, NoRequest)

Entries ==
    {LoginCall, CapitalImage,
     Entry(VStr(UrlUsers), VAbsent, VInt(0), NoRequest),
     Entry(VStr(UrlRoot), VNone, VNone, NoRequest),
     Entry(VAbsent, VStr(TxtPost), VAbsent, [t |-> "dict", url |-> VStr(UrlNested)]),
     Entry(VAbsent, VAbsent, VAbsent, [t |-> "str", url |-> VAbsent]),
     Entry(VStr(<<>>), VAbsent, VAbsent, [t |-> "dict", url |-> VAbsent]),
     Entry(VInt(5), VAbsent, VAbsent, NoRequest),
     NonDictEntry}

ReqList(items) ==
    [v |-> VList(Len(items)), entries |-> VAbsent, logs |-> VAbsent, items |-> items]

(* a HAR-style mapping: its 'entries' and 'logs' fields, and the entries of *)
(* the one of them that the code iterates                                   *)
Har(entries, logs, items) ==
    [v |-> VDict(1), entries |-> entries, logs |-> logs, items |-> items]

OtherNet(v) == [AbsentNet EXCEPT !.v = v]

NetSources ==
    {AbsentNet, OtherNet(VNone), OtherNet(VInt(5)), OtherNet(VStr(TxtQ)),
     OtherNet(VDict(0)),
     Har(VAbsent, VAbsent, <<>>), Har(VInt(5), VAbsent, <<>>),
     Har(VAbsent, VNone, <<>>), Har(VDict(2), VAbsent, <<>>),
     Har(VStr(TxtQ), VList(1), <<>>)}
    \cup {ReqList(e) : e \in SeqsUpTo(Entries, 2)}
    \cup {Har(VList(Len(e)), VAbsent, e) : e \in SeqsUpTo(Entries, 2) \ {<<>>}}
    \cup {Har(VAbsent, VList(Len(e)), e) : e \in SeqsUpTo(Entries, 1)}
    \cup {ReqList(Repeat(e, k) \o t) :
             e \in {LoginCall, CapitalImage}, k \in (STATIC_CAP - 1)..MaxRepeat,
             t \in SeqsUpTo({LoginCall, CapitalImage}, 1)}

NetFew == {AbsentNet, ReqList(<<LoginCall>>)}

StItem(key, value) == [isdict |-> TRUE, key |-> key, value |-> value]

NonDictItem == [StItem(VAbsent, VAbsent) EXCEPT !.isdict = FALSE]

Dark == VStr(TxtDark)

(* the keys of a storage mapping are strings *)
StorageKeys ==
    {KeyTheme, KeyTokenAuth, KeyAuthToken, KeyUser, KeyEmail, KeyPassword,
     KeyUserName, KeyMySecret, KeyToken}

StorageValues == {Dark, VInt(5), VNone, VStr(Long("v", VALUE_TRUNC + 1))}

Pairs == {StItem(VStr(k), Dark) : k \in StorageKeys}
         \cup {StItem(VStr(KeyTheme), v) : v \in StorageValues}

ListItems ==
    Pairs \cup {StItem(VInt(5), Dark), StItem(VAbsent, VAbsent),
                StItem(VNone, VNone), NonDictItem}

DistinctKeys(items) ==
    \A i, j \in 1..Len(items) : i # j => items[i].key # items[j].key

(* k items under the distinct keys prefix0, prefix1, ... *)
Numbered(prefix, k) ==
    IF k = 0 THEN <<>> ELSE [i \in 1..k |-> StItem(VStr(prefix \o Digits(i - 1)), Dark)]

StorageDict(items) == [v |-> VDict(Len(items)), items |-> items]
StorageList(items) == [v |-> VList(Len(items)), items |-> items]
OtherStorage(v) == [v |-> v, items |-> <<>>]

StorageSources ==
    {AbsentStorage, OtherStorage(VNone), OtherStorage(VInt(5)),
     OtherStorage(VStr(TxtQ)), OtherStorage(VList(0)),
     StorageList(Numbered(KeyUser, STORAGE_LIST_LIMIT + 1))}
    \cup {StorageDict(p) : p \in {q \in SeqsUpTo(Pairs, 2) : DistinctKeys(q)}}
    \cup {StorageList(p) : p \in SeqsUpTo(ListItems, 2) \ {<<>>}}
    \cup {StorageDict(Numbered(k, n) \o t) :
             k \in {KeyUser, KeyPref}, n \in (STORAGE_CAP - 1)..MaxRepeat,
             t \in SeqsUpTo({StItem(VStr(KeyTheme), Dark)}, 1)}
    \cup {StorageList(Repeat(StItem(VStr(k), Dark), n)) :
             k \in {KeyUser, KeyTheme, KeyToken}, n \in (STORAGE_CAP - 1)..MaxRepeat}

StorageFew == {AbsentStorage, StorageDict(<<StItem(VStr(KeyTheme), Dark)>>)}

(* a page record; alt puts each source under the second spelling of its key *)
Page(ui, net, st, alt) ==
    [t |-> "dict", URL |-> IF alt THEN VAbsent ELSE VStr(UrlRoot),
     InspectElementHTML |-> IF alt THEN AbsentUI ELSE ui,
     elements |-> IF alt THEN ui ELSE AbsentUI,
     NetworkRequests |-> IF alt THEN AbsentNet ELSE net,
     network_requests |-> IF alt THEN net ELSE AbsentNet,
     LocalStorage |-> IF alt THEN AbsentStorage ELSE st,
     local_storage |-> IF alt THEN st ELSE AbsentStorage]

(* a page that is no mapping *)
BadPage == [EmptyPage EXCEPT !.t = "list"]

(* both spellings present: the first one wins, also when it is null *)
BothKeysPage ==
    [Page(ElemList(<<SubmitButton>>), ReqList(<<LoginCall>>),
          StorageList(<<StItem(VStr(KeyUser), Dark)>>), TRUE)
       EXCEPT !.InspectElementHTML = OtherUI(VNone),
              !.NetworkRequests = ReqList(<<CapitalImage>>),
              !.LocalStorage = OtherStorage(VInt(5))]

LocalPages ==
    {Page(ui, net, st, alt) :
        ui \in UISources, net \in NetFew, st \in StorageFew, alt \in {TRUE}}
    \cup {Page(ui, net, st, alt) :
        ui \in UIFew, net \in NetSources, st \in StorageFew, alt \in {FALSE}}
    \cup {Page(ui, net, st, alt) :
        ui \in UIFew, net \in NetFew, st \in StorageSources, alt \in BOOLEAN}
    \cup {BadPage, BothKeysPage}

File(v, pages) == [readable |-> TRUE, v |-> v, pages |-> pages]
Unreadable == [readable |-> FALSE, v |-> VNone, pages |-> <<>>]

Named(name, data) == [name |-> name, data |-> data]

LocalScanFiles ==
    {File(VDict(1), <<Named("p1", pg)>>) : pg \in LocalPages}
    \cup {Unreadable, File(VNone, <<>>), File(VList(0), <<>>), File(VDict(0), <<>>)}

PlanEntry(t, description) == [t |-> t, description |-> description]

GoodPlan == File(VDict(1), <<Named("p1", PlanEntry("dict", VStr(TxtQ)))>>)

NoOutput == [written |-> FALSE, blocks |-> <<>>]
NoExt == [ui |-> Returned(<<>>), net |-> Returned(<<>>), st |-> Returned(<<>>)]
NoResult == [exc |-> "", val |-> <<>>, page |-> ""]

----------------------------------------------------------------------------
(* The report functions on their own: SpecLocal calls the three extractors *)
(* and generate_local_test_case on one page of a scan file.                *)

InitLocal ==
    /\ scan_file \in LocalScanFiles
    /\ plan_file \in {GoodPlan, Unreadable}
    /\ bs4 \in BOOLEAN
    /\ pc = "input"
    /\ idx = 0 /\ prov = 0 /\ attempt = 0 /\ tried = <<>>
    /\ test_cases = <<>> /\ returned = <<>> /\ output = NoOutput /\ outcome = "running"
    /\ ext = NoExt /\ result = NoResult
    /\ page_details = <<>> /\ llm_calls = <<>> /\ plan_result = <<>>

(* the page record the extractors are called on *)
InputPage == PageData(load_json(scan_file), "p1")

CallExtractors ==
    /\ pc = "input"
    /\ InputPage.t = "dict"
    /\ ext' = [ui |-> extract_ui_elements(UISource(InputPage), bs4),
               net |-> extract_network_requests(NetSource(InputPage)),
               st |-> extract_local_storage(StorageSource(InputPage))]
    /\ pc' = "extracted"
    /\ UNCHANGED <<planVars, scan_file, plan_file, bs4, idx, prov, attempt, tried,
                   test_cases, returned, output, outcome, result>>

CallGenerateLocal ==
    /\ pc \in {"input", "extracted"}
    /\ \E page \in {"p1", "p2"} :
          result' = [exc |-> generate_local_test_case(page, load_json(scan_file),
                                                     load_json(plan_file), bs4).exc,
                     val |-> generate_local_test_case(page, load_json(scan_file),
                                                     load_json(plan_file), bs4).val,
                     page |-> page]
    /\ pc' = "reported"
    /\ UNCHANGED <<planVars, scan_file, plan_file, bs4, idx, prov, attempt, tried,
                   test_cases, returned, output, outcome, ext>>

NextLocal == CallExtractors \/ CallGenerateLocal

SpecLocal == InitLocal /\ [][NextLocal]_vars

----------------------------------------------------------------------------
(* generate_all_test_cases: the run over the pages of the scan file *)

AI_PROVIDER_ORDER == <<"openai", "anthropic", "gemini">>

PageName(i) == <<"p1", "p2", "p3", "p4">>[i]

(* pages of the scan file as the run sees them *)
OrchPages ==
    {EmptyPage,
     Page(ElemList(<<SubmitButton>>), ReqList(<<LoginCall>>),
          StorageList(<<StItem(VStr(KeyUser), Dark)>>), TRUE),
     Page(OtherUI(VDict(1)), ReqList(<<Entry(VInt(5), VAbsent, VAbsent, NoRequest)>>),
          AbsentStorage, TRUE),
     BadPage}

NamePages(datas) ==
    IF datas = <<>> THEN <<>>
    ELSE [i \in 1..Len(datas) |-> Named(PageName(i), datas[i])]

ScanFiles ==
    {File(VDict(Len(d)), NamePages(d)) : d \in SeqsUpTo(OrchPages, MaxPages)}
    \cup {Unreadable, File(VList(1), <<>>)}

PlanFiles ==
    {GoodPlan, Unreadable, File(VDict(0), <<>>), File(VList(1), <<>>), File(VInt(5), <<>>),
     File(VDict(2), <<Named("p1", PlanEntry("dict", VAbsent)),
                      Named("p2", PlanEntry("str", VAbsent))>>)}

Init ==
    /\ scan_file \in ScanFiles
    /\ plan_file \in PlanFiles
    /\ bs4 = TRUE
    /\ pc = "start"
    /\ idx = 0 /\ prov = 0 /\ attempt = 0 /\ tried = <<>>
    /\ test_cases = <<>> /\ returned = <<>> /\ output = NoOutput /\ outcome = "running"
    /\ ext = NoExt /\ result = NoResult
    /\ page_details = <<>> /\ llm_calls = <<>> /\ plan_result = <<>>

(* not data *)
Falsy(data) == ~Truthy(data.v)

(* debug_data_structure raises on a scan that is no mapping of mappings *)
DebugRaises(scan_data) ==
    /\ ~Falsy(scan_data)
    /\ \/ scan_data.v.t # "dict"
       \/ \E i \in 1..Len(scan_data.pages) : scan_data.pages[i].data.t # "dict"

(* len(test_plan) raises on a number *)
LenRaises(test_plan) == test_plan.v.t = "int"

Finish(how) ==
    /\ pc' = "done"
    /\ outcome' = how
    /\ UNCHANGED <<planVars, scan_file, plan_file, bs4, idx, prov, attempt, tried,
                   test_cases, returned, output, ext, result>>

(* generate_all_test_cases up to its loop *)
StartRun ==
    /\ pc = "start"
    /\ LET scan_data == load_json(scan_file)
           test_plan == load_json(plan_file)
       IN  IF DebugRaises(scan_data) THEN Finish("fatal")
           ELSE IF Falsy(scan_data) \/ Falsy(test_plan) THEN Finish("load_failed")
           ELSE IF LenRaises(test_plan) THEN Finish("fatal")
           ELSE /\ pc' = "loop"
                /\ idx' = 1
                /\ UNCHANGED <<planVars, scan_file, plan_file, bs4, prov, attempt, tried,
                               test_cases, returned, output, outcome, ext, result>>

(* test_plan.get(page, {}).get('description', ..) raises unless the plan and *)
(* its entry for the page are mappings                                       *)
ScenarioRaises(test_plan, page) ==
    \/ test_plan.v.t # "dict"
    \/ \E i \in 1..Len(test_plan.pages) :
          test_plan.pages[i].name = page /\ test_plan.pages[i].data.t # "dict"

(* the head of the loop body, for the next page of the scan *)
BeginPage ==
    /\ pc = "loop"
    /\ idx <= Len(scan_file.pages)
    /\ IF ScenarioRaises(load_json(plan_file), scan_file.pages[idx].name)
       THEN Finish("fatal")
       ELSE /\ pc' = "providers"
            /\ prov' = 1
            /\ attempt' = 1
            /\ tried' = <<>>
            /\ UNCHANGED <<planVars, scan_file, plan_file, bs4, idx, test_cases, returned, output,
                           outcome, ext, result>>

Sliceable(v) == v.t \in {"absent", "list", "str"}

(* the prompt slices details['elements'] and, but for gemini, *)
(* details['network_requests']                               *)
PromptRaises(provider, details) ==
    \/ ~Sliceable(details.elements.v)
    \/ provider # "gemini" /\ ~Sliceable(details.network_requests.v)

Block(page, src, text) == [page |-> page, src |-> src, text |-> text]

ProviderTexts == {<< <<"*** Test Cases ***">> >>, << <<" ">> >>, <<>>}

(* the test without strip(): whitespace counts as output *)
NonEmpty(text) == text # <<>>

(* test_case and test_case.strip() *)
NonBlank(text) == \E i \in 1..Len(text) : text[i] \notin {<<>>, <<" ">>}

(* the rest of the loop body once generate_test_case has returned *)
EndPage(src, text) ==
    /\ test_cases' = IF NonBlank(text)
                     THEN Append(test_cases,
                                 Block(scan_file.pages[idx].name, src, text))
                     ELSE test_cases
    /\ returned' = Append(returned, Block(scan_file.pages[idx].name, src, text))
    /\ idx' = idx + 1
    /\ pc' = "loop"

Call(provider, how) == [p |-> provider, out |-> how]

(* a provider returns: generate_test_case returns its text *)
ProviderReturns ==
    /\ pc = "providers"
    /\ ~PromptRaises(AI_PROVIDER_ORDER[prov], scan_file.pages[idx].data)
    /\ \E text \in ProviderTexts :
          /\ tried' = Append(tried, Call(AI_PROVIDER_ORDER[prov], "returned"))
          /\ EndPage(AI_PROVIDER_ORDER[prov], text)
    /\ UNCHANGED <<planVars, scan_file, plan_file, bs4, prov, attempt, output, outcome,
                   ext, result>>

(* tenacity calls again while attempts remain and the exception is one the *)
(* decorator retries: openai only a rate limit or a timeout                 *)
Retried(provider, exc, n) ==
    /\ n < MAX_RETRIES
    /\ provider = "openai" => exc \in {"RateLimitError", "APITimeoutError"}

(* the loop skipping the provider that follows the failed one *)
NextProviderSkipping(p) == p + 2

(* where the loop of generate_test_case goes after a provider's exception *)
NextProvider(p) == p + 1

(* a provider raises: retried, or caught by the loop of generate_test_case *)
ProviderRaises ==
    /\ pc = "providers"
    /\ \E exc \in {"RateLimitError", "APITimeoutError", "Exception"} :
          /\ PromptRaises(AI_PROVIDER_ORDER[prov], scan_file.pages[idx].data)
                => exc = "Exception"
          /\ tried' = Append(tried, Call(AI_PROVIDER_ORDER[prov], "raised"))
          /\ IF Retried(AI_PROVIDER_ORDER[prov], exc, attempt)
             THEN /\ attempt' = attempt + 1
                  /\ UNCHANGED <<prov, pc>>
             ELSE /\ attempt' = 1
                  /\ prov' = NextProvider(prov)
                  /\ pc' = IF NextProvider(prov) > Len(AI_PROVIDER_ORDER)
                           THEN "local" ELSE "providers"
    /\ UNCHANGED <<planVars, scan_file, plan_file, bs4, idx, test_cases, returned, output, outcome,
                   ext, result>>

(* all providers failed: generate_local_test_case *)
LocalFallback ==
    /\ pc = "local"
    /\ LET page == scan_file.pages[idx].name
           r == generate_local_test_case(page, load_json(scan_file),
                                         load_json(plan_file), bs4)
       IN  IF r.exc # ""
           THEN /\ pc' = "done"
                /\ outcome' = "fatal"
                /\ UNCHANGED <<idx, tried, test_cases, returned, result>>
           ELSE /\ tried' = Append(tried, Call("local", "returned"))
                /\ result' = [exc |-> r.exc, val |-> r.val, page |-> page]
                /\ EndPage("local", r.val)
                /\ UNCHANGED outcome
    /\ UNCHANGED <<planVars, scan_file, plan_file, bs4, prov, attempt, output, ext>>

(* after the loop: the blocks are written, if there is any *)
WriteOutput ==
    /\ pc = "loop"
    /\ idx > Len(scan_file.pages)
    /\ pc' = "done"
    /\ IF test_cases # <<>>
       THEN output' = [written |-> TRUE, blocks |-> test_cases] /\ outcome' = "written"
       ELSE output' = output /\ outcome' = "no_output"
    /\ UNCHANGED <<planVars, scan_file, plan_file, bs4, idx, prov, attempt, tried,
                   test_cases, returned, ext, result>>

Next ==
    \/ StartRun
    \/ BeginPage
    \/ ProviderReturns
    \/ ProviderRaises
    \/ LocalFallback
    \/ WriteOutput

Spec == Init /\ [][Next]_vars

----------------------------------------------------------------------------
(* The test-plan script (openAI_langChain_testPlanGeneration_referMasterJSON.py): *)
(* generate_test_plan and generate_fallback_test_case.  An entry of the list     *)
(* test_cases is a string, modelled as the sequence of its lines.                *)

(* a record of page_details, as extract_page_details builds it: elements,  *)
(* network_requests and storage hold whatever the scan has under the keys  *)
PlanPage(name, parent, elements, network_requests, storage) ==
    [name |-> name, parent |-> parent, elements |-> elements,
     network_requests |-> network_requests, storage |-> storage]

(* len(v) is defined *)
Sized(v) == v.t \in {"str", "list", "dict"}

(* building page_info raises: a key is missing or its value has no length *)
PageInfoRaises(page) ==
    \/ ~Sized(page.elements.v)
    \/ ~Sized(page.network_requests.v)
    \/ ~Sized(page.storage.v)

RECURSIVE Join(_, _)
(* sep.join(texts) *)
Join(texts, sep) ==
    IF texts = <<>> THEN <<>>
    ELSE IF Len(texts) = 1 THEN texts[1]
    ELSE texts[1] \o sep \o Join(Tail(texts), sep)

FALLBACK_ELEMENTS == 5
FALLBACK_ENDPOINTS == 3

(* the items of page.get(key, [])[:n]: of a list its first n, of a string *)
(* its first n characters, which are no mappings                          *)
Sliced(v, items, n) ==
    IF v.t = "str" THEN Take(Repeat([isdict |-> FALSE], v.n), n)
    ELSE Take(items, n)

(* what ', '.join(item[key] for item in page.get(..)[:n]) raises, "" if nothing: *)
(* the value cannot be sliced, an item is no mapping or lacks the key, or the    *)
(* value under the key is no string.  held maps an item to its value under key   *)
FieldsExc(v, held) ==
    IF v.t \in {"int", "none", "dict"} THEN "TypeError"
    ELSE IF \E i \in 1..Len(held) : held[i].t = "nondict" THEN "TypeError"
    ELSE IF \E i \in 1..Len(held) : held[i].t = "absent" THEN "KeyError"
    ELSE IF \E i \in 1..Len(held) : held[i].t # "str" THEN "TypeError"
    ELSE ""

NonDict == [t |-> "nondict", s |-> <<>>, n |-> 0]

Texts(held) == IF held = <<>> THEN <<>> ELSE [i \in 1..Len(held) |-> held[i].s]

(* el['selector'] for el in page.get('elements', [])[:5] *)
Selectors(page) ==
    LET els == Sliced(page.elements.v, page.elements.elems, FALLBACK_ELEMENTS)
    IN  IF els = <<>> THEN <<>>
        ELSE [i \in 1..Len(els) |->
                 IF els[i].isdict THEN els[i].selector ELSE NonDict]

(* req['url'] for req in page.get('network_requests', [])[:3] *)
Endpoints(page) ==
    LET reqs == Sliced(page.network_requests.v, page.network_requests.items,
                       FALLBACK_ENDPOINTS)
    IN  IF reqs = <<>> THEN <<>>
        ELSE [i \in 1..Len(reqs) |-> IF reqs[i].isdict THEN reqs[i].url ELSE NonDict]

(* page.get('storage', {}).keys() *)
StorageKeyTexts(page) ==
    IF page.storage.items = <<>> THEN <<>>
    ELSE [i \in 1..Len(page.storage.items) |-> page.storage.items[i].key.s]

KeysExc(v) == IF v.t \in {"dict", "absent"} THEN "" ELSE "AttributeError"

Rule == <<"==================================================">>

ManualHeader(name) == <<"=== MANUAL TEST PLAN FOR: ", name, " ===">>

FallbackLines(page) ==
    <<ManualHeader(page.name),
      <<"Parent Page: ">> \o PyStr(GetOr(page.parent, VStr(<<"Root">>))),
      <<>>, <<"UI FUNCTIONALITY TESTS:">>,
      <<"1. Verify all buttons and interactive elements are clickable">>,
      <<"2. Validate form submissions work properly">>,
      <<"3. Check all navigation links direct to correct pages">>,
      <<"4. Test these specific elements: ">> \o Join(Texts(Selectors(page)), <<", ">>),
      <<>>, <<"NETWORK TESTS:">>,
      <<"1. Verify critical API endpoints return 200 status">>,
      <<"2. Check these endpoints: ">> \o Join(Texts(Endpoints(page)), <<", ">>),
      <<"3. Validate response formats match expectations">>,
      <<>>, <<"STORAGE TESTS:">>,
      <<"1. Verify localStorage items are set/retrieved properly">>,
      <<"2. Check these storage items: ">> \o Join(StorageKeyTexts(page), <<", ">>),
      <<"3. Validate cookie settings">>,
      <<>>, <<"ACCESSIBILITY CHECKS:">>,
      <<"1. Verify alt text for images">>,
      <<"2. Check color contrast ratios">>,
      <<"3. Validate keyboard navigation">>,
      <<>>, Rule, <<>> >>

(* the list is built item by item: the first expression that raises decides *)
generate_fallback_test_case(page) ==
    LET sel == FieldsExc(page.elements.v, Selectors(page))
        url == FieldsExc(page.network_requests.v, Endpoints(page))
        keys == KeysExc(page.storage.v)
    IN  IF sel # "" THEN Raised(sel)
        ELSE IF url # "" THEN Raised(url)
        ELSE IF keys # "" THEN Raised(keys)
        ELSE Returned(FallbackLines(page))

PlanHeader(name) == <<"=== TEST PLAN FOR: ", name, " ===">>

(* the three entries appended when the model answered *)
ModelEntries(name, content) ==
    << <<PlanHeader(name)>>, content, <<<<>>, Rule, <<>>>> >>

(* the list returned by the outer except *)
InitError == << <<<<"Error: Could not initialize OpenAI client">>>> >>

ModelTexts == {<< <<"1. UI Functionality Tests">> >>, <<>>}

(* the pages the plan is generated for *)
PlanElements ==
    {ElemList(<<>>),
     ElemList(<<Elem(VStr(TxtLink), VStr(TxtHome), VAbsent, VAbsent,
                     VStr(TxtHomeSelector), VAbsent, VAbsent)>>),
     ElemList(<<SubmitButton>>),
     ElemList(Repeat(Elem(VAbsent, VAbsent, VAbsent, VAbsent, VStr(TxtHomeSelector),
                          VAbsent, VAbsent), FALLBACK_ELEMENTS) \o <<SubmitButton>>),
     OtherUI(VNone)}

PlanRequests ==
    {ReqList(<<>>), ReqList(<<LoginCall, CapitalImage>>),
     ReqList(<<Entry(VAbsent, VStr(TxtPost), VAbsent, NoRequest)>>)}

PlanStorages ==
    {StorageDict(<<>>), StorageDict(<<StItem(VStr(KeyTheme), Dark)>>),
     StorageList(<<StItem(VStr(KeyUser), Dark)>>)}

PlanPageDatas ==
    {[elements |-> e, network_requests |-> ReqList(<<LoginCall, CapitalImage>>),
      storage |-> StorageDict(<<StItem(VStr(KeyTheme), Dark)>>)] : e \in PlanElements}
    \cup {[elements |-> ElemList(<<>>), network_requests |-> r,
           storage |-> StorageDict(<<>>)] : r \in PlanRequests}
    \cup {[elements |-> ElemList(<<>>), network_requests |-> ReqList(<<>>),
           storage |-> st] : st \in PlanStorages}

PageDetails(datas) ==
    IF datas = <<>> THEN <<>>
    ELSE [i \in 1..Len(datas) |->
             PlanPage(PageName(i), IF i = 1 THEN VNone ELSE VStr(<<PageName(1)>>),
                      datas[i].elements, datas[i].network_requests, datas[i].storage)]

InitPlan ==
    /\ page_details \in {PageDetails(d) : d \in SeqsUpTo(PlanPageDatas, MaxPages)}
    /\ llm_calls = <<>> /\ plan_result = <<>>
    /\ pc = "plan_start"
    /\ idx = 0 /\ test_cases = <<>>
    /\ scan_file = Unreadable /\ plan_file = Unreadable /\ bs4 = TRUE
    /\ prov = 0 /\ attempt = 0 /\ tried = <<>>
    /\ returned = <<>> /\ output = NoOutput /\ outcome = "running"
    /\ ext = NoExt /\ result = NoResult

(* what generate_test_plan never touches *)
runVars == <<scan_file, plan_file, bs4, prov, attempt, tried, returned, output,
             outcome, ext, result>>

(* ChatOpenAI(..) and PromptTemplate(..) are built; the loop starts *)
ConstructClient ==
    /\ pc = "plan_start"
    /\ pc' = "plan_loop"
    /\ idx' = 1
    /\ UNCHANGED <<runVars, page_details, llm_calls, plan_result, test_cases>>

(* the outer except Exception: the error list is returned *)
ReturnInitError ==
    /\ pc' = "plan_done"
    /\ plan_result' = InitError

(* building the client raises *)
ClientInitRaises ==
    /\ pc = "plan_start"
    /\ ReturnInitError
    /\ UNCHANGED <<runVars, page_details, llm_calls, test_cases, idx>>

(* llm.invoke returns: header, content and separator are appended *)
ModelReturns ==
    /\ pc = "plan_loop"
    /\ idx <= Len(page_details)
    /\ ~PageInfoRaises(page_details[idx])
    /\ \E content \in ModelTexts :
          test_cases' = test_cases \o ModelEntries(page_details[idx].name, content)
    /\ llm_calls' = Append(llm_calls, "returned")
    /\ idx' = idx + 1
    /\ UNCHANGED <<runVars, page_details, plan_result, pc>>

(* either except clause of the loop: test_cases.append(                    *)
(* generate_fallback_test_case(page)); an exception of that call is raised *)
(* in the handler, leaves the loop and reaches the outer except            *)
AppendFallback(page) ==
    LET fb == generate_fallback_test_case(page)
    IN  IF fb.exc # ""
        THEN ReturnInitError /\ UNCHANGED <<test_cases, idx>>
        ELSE /\ test_cases' = Append(test_cases, fb.val)
             /\ idx' = idx + 1
             /\ UNCHANGED <<plan_result, pc>>

(* llm.invoke raises a rate limit or another exception *)
ModelRaises ==
    /\ pc = "plan_loop"
    /\ idx <= Len(page_details)
    /\ ~PageInfoRaises(page_details[idx])
    /\ \E exc \in {"RateLimitError", "Exception"} :
          llm_calls' = Append(llm_calls, exc)
    /\ AppendFallback(page_details[idx])
    /\ UNCHANGED <<runVars, page_details>>

(* page_info cannot be built: the model is not called, except Exception *)
PageInfoFails ==
    /\ pc = "plan_loop"
    /\ idx <= Len(page_details)
    /\ PageInfoRaises(page_details[idx])
    /\ llm_calls' = Append(llm_calls, "TypeError")
    /\ AppendFallback(page_details[idx])
    /\ UNCHANGED <<runVars, page_details>>

(* return test_cases *)
ReturnPlan ==
    /\ pc = "plan_loop"
    /\ idx > Len(page_details)
    /\ plan_result' = test_cases
    /\ pc' = "plan_done"
    /\ UNCHANGED <<runVars, page_details, llm_calls, test_cases, idx>>

NextPlan ==
    \/ ConstructClient
    \/ ClientInitRaises
    \/ ModelReturns
    \/ ModelRaises
    \/ PageInfoFails
    \/ ReturnPlan

SpecPlan == InitPlan /\ [][NextPlan]_vars

----------------------------------------------------------------------------
(* Properties *)

(* what the report of the state is about *)
Reported == pc = "reported"
ReportedPage == PageData(load_json(scan_file), result.page)
ReportedBody ==
    LocalReportBody(result.page, load_json(scan_file), load_json(plan_file), bs4)
(* the report has its sections: it is neither of the two error strings *)
FullReport == Reported /\ Len(result.val) > 2
ReportedUI == extract_ui_elements(UISource(ReportedPage), bs4).val
ReportedNet == extract_network_requests(NetSource(ReportedPage)).val
ReportedStorage == extract_local_storage(StorageSource(ReportedPage)).val

IsItemLine(line) == line # <<>> /\ line[1] = "- "
IsMoreLine(line) == line # <<>> /\ line[1] = "... plus "
IndexOf(lines, line) == CHOOSE i \in 1..Len(lines) : lines[i] = line

(* the key of a storage line "- key: value" *)
LineKey(line) == SplitFirst(Tail(line), ": ")

(* the lines of the storage section of a report *)
StorageLines(report) ==
    IF StorageHeader \in Range(report)
    THEN {report[i] : i \in {j \in 1..Len(report) :
                                j > IndexOf(report, StorageHeader)
                                /\ IsItemLine(report[j])}}
    ELSE {}

SensitiveKey(key) ==
    \/ \E w \in sensitive_keys : Contains(Lower(key), w)
    \/ key \in {<<"u", "s", "e", "r">>, <<"e", "m", "a", "i", "l">>}

(* C1: no storage item whose key contains token, auth, secret or password   *)
(* (whatever the case) or equals user or email is in the output of          *)
(* extract_local_storage, and no such key is on a storage line of the       *)
(* report of generate_local_test_case.                                      *)
C1_NoSensitiveKey ==
    /\ pc = "extracted" =>
          \A i \in 1..Len(ext.st.val) : ~SensitiveKey(PyStr(ext.st.val[i].key))
    /\ FullReport =>
          \A line \in StorageLines(result.val) : ~SensitiveKey(LineKey(line))

(* C4: the three extractors return a sequence for every input and never raise. *)
C4_ExtractorsTotal ==
    pc = "extracted" => ext.ui.exc = "" /\ ext.net.exc = "" /\ ext.st.exc = ""

(* C9: every element record that extract_ui_elements returns has a non-empty *)
(* name, for markup and for a sequence of records.                           *)
C9_NonEmptyName ==
    pc = "extracted" =>
        \A i \in 1..Len(ext.ui.val) :
            ext.ui.val[i].isdict =>
                ext.ui.val[i].name.t = "str" /\ ext.ui.val[i].name.s # <<>>

SectionStarts == {UIHeader, NetHeader, StorageHeader, NoUI, NoNet, NoStorage}

(* the section that starts at line i of the report shows an item *)
SectionHasItem(report, i) ==
    \E j \in (i + 1)..Len(report) :
        /\ IsItemLine(report[j])
        /\ \A k \in (i + 1)..(j - 1) : report[k] \notin SectionStarts

(* C5: a section of the report with no item to render is its "No ...        *)
(* captured" line: a section header is never followed by an empty body.     *)
C5_NoEmptySection ==
    FullReport =>
        \A i \in 1..Len(result.val) :
            result.val[i] \in {UIHeader, NetHeader, StorageHeader}
                => SectionHasItem(result.val, i)

(* the line the claim gives an element that carries a locator *)
LocatorLine(e) ==
    <<"- ">> \o PyStr(ElemName(e)) \o <<" (Locator: ">>
    \o Take(e.locator.s, LOCATOR_TRUNC) \o <<")">>

(* C6: every rendered element record with a non-empty 'locator' field has   *)
(* the line "- <name> (Locator: <locator, at most 50 characters>)".         *)
C6_LocatorShown ==
    FullReport =>
        \A i \in 1..Len(element_categories(ReportedUI)) :
            \A j \in 1..Len(Shown(element_categories(ReportedUI)[i].elems, UI_CAP)) :
                LET e == element_categories(ReportedUI)[i].elems[j]
                IN  (e.locator.t = "str" /\ e.locator.s # <<>>)
                        => LocatorLine(e) \in Range(result.val)

(* C3: generate_local_test_case never raises and returns a string: an       *)
(* exception of its body is turned into the error string of the page.       *)
C3_LocalNeverRaises ==
    Reported =>
        /\ result.exc = ""
        /\ result.val # <<>>
        /\ ReportedBody.exc # ""
              => result.val = ErrorReport(result.page, ReportedBody.exc)

(* a page whose element has a locator that cannot be sliced: the error string *)
C3_Witness ==
    /\ Reported
    /\ ReportedBody.exc = "TypeError"
    /\ result.val = ErrorReport("p1", "TypeError")

(* the list under `header` has M items and is capped at N: min(M, N) item   *)
(* lines follow the header, then the one summary line iff M > N             *)
CapLaw(report, header, M, N) ==
    \E h \in 1..Len(report) :
        /\ report[h] = header
        /\ h + Min(M, N) <= Len(report)
        /\ \A k \in 1..Min(M, N) : IsItemLine(report[h + k])
        /\ M > N => /\ h + N + 1 <= Len(report)
                    /\ report[h + N + 1] = <<"... plus ">> \o Digits(M - N) \o <<" more">>
        /\ LET next == h + Min(M, N) + (IF M > N THEN 1 ELSE 0) + 1
           IN  next <= Len(report)
                   => ~IsItemLine(report[next]) /\ ~IsMoreLine(report[next])

(* how many elements of the list the code puts into a category *)
CountCategory(elems, cat) ==
    Cardinality({i \in 1..Len(elems) : elems[i].isdict /\ Category(elems[i]) = cat})

(* how many requests have "/api/" in their lowercased URL *)
CountApi(reqs) ==
    Cardinality({i \in 1..Len(reqs) : Contains(Lower(reqs[i].url), ApiPath)})

(* how many storage items are shown as user data (user = TRUE) or app data *)
CountStorage(items, user) ==
    Cardinality({i \in 1..Len(items) :
                    ~IsSensitive(items[i]) /\ (IsUserKey(items[i]) <=> user)})

Categories == {"button", "link", "input", "dropdown", "checkbox", "other"}

(* C7: every list of the report with M items and cap N (10, and 5 for the   *)
(* static resources) shows min(M, N) item lines, followed by exactly one    *)
(* line "... plus (M - N) more" iff M > N.                                  *)
C7_Capping ==
    FullReport =>
        /\ \A cat \in Categories :
              LET M == CountCategory(ReportedUI, cat)
              IN  M > 0 => CapLaw(result.val, CountHeader(<<CatUpper(cat), "S">>, M), M, 10)
        /\ ReportedNet # <<>> =>
              LET A == CountApi(ReportedNet)
              IN  /\ CapLaw(result.val, CountHeader(ApiTitle, A), A, 10)
                  /\ CapLaw(result.val, CountHeader(StaticTitle, Len(ReportedNet) - A),
                            Len(ReportedNet) - A, 5)
        /\ ReportedStorage # <<>> =>
              /\ CapLaw(result.val, UserTitle, CountStorage(ReportedStorage, TRUE), 10)
              /\ CapLaw(result.val, AppTitle, CountStorage(ReportedStorage, FALSE), 10)

(* eleven buttons: ten lines and "... plus 1 more" *)
C7_Witness ==
    /\ FullReport
    /\ CountCategory(ReportedUI, "button") = 11
    /\ <<"... plus ", "1", " more">> \in Range(result.val)

(* C8: the requests of extract_network_requests are split into api_calls    *)
(* and static_resources, each request in exactly one of them, also among    *)
(* equal records, and in api_calls iff its lowercased URL contains "/api/". *)
C8_Partition ==
    (FullReport /\ ReportedNet # <<>>) =>
        LET api == ApiCalls(ReportedNet)
            static == StaticResources(ReportedNet, api)
            A == CountApi(ReportedNet)
        IN  /\ \A i \in 1..Len(ReportedNet) :
                  /\ (ReportedNet[i] \in Range(api)) # (ReportedNet[i] \in Range(static))
                  /\ (ReportedNet[i] \in Range(api))
                        <=> Contains(Lower(ReportedNet[i].url), ApiPath)
            /\ Len(api) + Len(static) = Len(ReportedNet)
            /\ CountHeader(ApiTitle, A) \in Range(result.val)
            /\ CountHeader(StaticTitle, Len(ReportedNet) - A) \in Range(result.val)

(* equal api records and a URL that holds "api" but not "/api/" *)
C8_Witness ==
    /\ FullReport
    /\ Len(ReportedNet) > 2
    /\ ReportedNet[1] = ReportedNet[2]
    /\ IsApiCall(ReportedNet[1])
    /\ \E i \in 1..Len(ReportedNet) :
          ReportedNet[i].type = "api" /\ ~IsApiCall(ReportedNet[i])

Rank(p) ==
    CASE p = "openai" -> 1 [] p = "anthropic" -> 2 [] p = "gemini" -> 3 [] OTHER -> 4

(* the page before idx has been handled and `tried` holds its calls *)
PageHandled == pc = "loop" /\ idx > 1 /\ tried # <<>>

(* C2: per page the providers are tried in the order openai, anthropic,     *)
(* gemini; the first that returns ends the page and its text is the result; *)
(* generate_local_test_case is called exactly when all three have raised.   *)
C2_ProviderOrder ==
    /\ tried # <<>> => tried[1].p = "openai"
    /\ \A i \in 1..(Len(tried) - 1) :
          /\ tried[i].out = "raised"
          /\ Rank(tried[i + 1].p) \in {Rank(tried[i].p), Rank(tried[i].p) + 1}
    /\ (pc = "local" \/ \E i \in 1..Len(tried) : tried[i].p = "local") =>
          \A q \in {"openai", "anthropic", "gemini"} :
              \E j \in 1..Len(tried) : tried[j].p = q /\ tried[j].out = "raised"
    /\ PageHandled =>
          /\ tried[Len(tried)].out = "returned"
          /\ returned[Len(returned)].page = scan_file.pages[idx - 1].name
          /\ returned[Len(returned)].src = tried[Len(tried)].p

(* a first page answered by anthropic after openai raised, a second by the  *)
(* local report after all three raised                                       *)
C2_Witness ==
    /\ PageHandled
    /\ Len(returned) = 2
    /\ returned[1].src = "anthropic"
    /\ returned[2].src = "local"
    /\ tried[Len(tried)].p = "local"

BlockPages(blocks) ==
    IF blocks = <<>> THEN <<>> ELSE [i \in 1..Len(blocks) |-> blocks[i].page]

ScanPageNames ==
    IF scan_file.pages = <<>> THEN <<>>
    ELSE [i \in 1..Len(scan_file.pages) |-> scan_file.pages[i].name]

(* the run went through its loop: inputs loaded, no exception left it *)
Completed == pc = "done" /\ outcome \in {"written", "no_output"}

(* C10 as claimed: after a completed run the output holds exactly one block *)
(* per page of the scan data, in page order; no page is omitted.            *)
C10_OneBlockPerPage == Completed => BlockPages(output.blocks) = ScanPageNames

IsBlankText(text) == \A i \in 1..Len(text) : text[i] \in {<<>>, <<" ">>}

(* C10 as amended: the output, when written, holds one block, in page       *)
(* order, for each page whose generated text is not blank; a page whose     *)
(* provider returned blank text has none; nothing is written when all texts *)
(* are blank or an exception ended the run.                                  *)
C10_BlocksOfNonBlankPages ==
    pc = "done" =>
        /\ Completed => /\ BlockPages(returned) = ScanPageNames
                        /\ output.blocks
                             = SelectSeq(returned, LAMBDA b : ~IsBlankText(b.text))
                        /\ output.written <=> output.blocks # <<>>
        /\ ~Completed => ~output.written

(* two pages, the first one's provider text blank, the second one's not *)
C10_Witness ==
    /\ Completed
    /\ Len(returned) = 2
    /\ IsBlankText(returned[1].text)
    /\ output.written
    /\ BlockPages(output.blocks) = <<"p2">>

(* a file failed to load: load_json caught the exception and returned None *)
LoadFailed == ~scan_file.readable \/ ~plan_file.readable

(* generate_all_test_cases took no step of its loop and wrote nothing *)
NothingProcessed ==
    /\ idx = 0 /\ tried = <<>> /\ returned = <<>> /\ test_cases = <<>>
    /\ ~output.written

(* the first half of C11: a failed load ends the run before any page *)
FailedLoadIsFatal ==
    LoadFailed =>
        /\ NothingProcessed
        /\ pc = "done" => outcome \in {"load_failed", "fatal"}

(* C11: when the scan file or the plan file fails to load the run ends     *)
(* with no page processed and no output written; and a run whose two files *)
(* both loaded is never ended as a load failure.                           *)
C11_LoadFailureOnly ==
    /\ FailedLoadIsFatal
    /\ ~LoadFailed => outcome # "load_failed"

(* the pages the entries of a plan are for, read off their header lines *)
EntryPage(entry) ==
    IF entry # <<>> /\ entry[1] # <<>>
       /\ entry[1][1] \in {"=== TEST PLAN FOR: ", "=== MANUAL TEST PLAN FOR: "}
    THEN <<entry[1][2]>> ELSE <<>>

RECURSIVE PlanPages(_)
PlanPages(entries) ==
    IF entries = <<>> THEN <<>>
    ELSE EntryPage(Head(entries)) \o PlanPages(Tail(entries))

PageDetailNames ==
    IF page_details = <<>> THEN <<>>
    ELSE [i \in 1..Len(page_details) |-> page_details[i].name]

(* the model call failed for page i *)
CallFailed(i) == i <= Len(llm_calls) /\ llm_calls[i] # "returned"

(* generate_test_plan built its client and has returned *)
PlanReturned == pc = "plan_done" /\ idx >= 1

(* C12: when generate_test_plan returns, its list has an entry for every   *)
(* page of page_details, in order; for a page whose model call failed the  *)
(* entry is the template fallback plan of that page; and the entries       *)
(* accumulated for earlier pages are all in the returned list.             *)
C12_FallbackEveryPage ==
    PlanReturned =>
        /\ PlanPages(plan_result) = PageDetailNames
        /\ \A i \in 1..Len(page_details) :
              CallFailed(i) =>
                 \E k \in 1..Len(plan_result) :
                    plan_result[k] = FallbackLines(page_details[i])
        /\ plan_result = test_cases

(* the categories in the order the claim tests them *)
CategoryOrder == <<"button", "link", "input", "dropdown", "checkbox", "other">>

TypeHas(e, word) == Contains(ElemType(e), word)

(* the test the claim and the specification give for each category *)
Matches(e, cat) ==
    CASE cat = "button" -> TypeHas(e, TxtButton)
      [] cat = "link" -> TypeHas(e, <<"l", "i", "n", "k">>) \/ HasAHref(e)
      [] cat = "input" -> TypeHas(e, <<"i", "n", "p", "u", "t">>) \/ TypeHas(e, TxtText)
      [] cat = "dropdown" ->
            TypeHas(e, TxtSelect) \/ TypeHas(e, <<"d", "r", "o", "p", "d", "o", "w", "n">>)
      [] cat = "checkbox" ->
            TypeHas(e, <<"c", "h", "e", "c", "k", "b", "o", "x">>) \/ TypeHas(e, TxtRadio)
      [] OTHER -> TRUE

FirstMatch(e) ==
    CategoryOrder[SetMin({i \in 1..Len(CategoryOrder) : Matches(e, CategoryOrder[i])})]

(* the elements of the list whose first matching category is cat *)
Members(elems, cat) == SelectSeq(elems, LAMBDA e : FirstMatch(e) = cat)

(* where the list first has an element of the category *)
FirstIndex(elems, cat) == SetMin({i \in 1..Len(elems) : FirstMatch(elems[i]) = cat})

IsCategoryHeader(line) ==
    Len(line) > 2 /\ line[2] = "S" /\ \E c \in Categories : line[1] = CatUpper(c)

HeaderCategory(line) == CHOOSE c \in Categories : line[1] = CatUpper(c)

(* the positions of the category headers in a report, in order *)
HeaderPositions(report) == {h \in 1..Len(report) : IsCategoryHeader(report[h])}

(* the sub-section starting at line h is that of the category's members *)
SectionOf(report, h, members) ==
    /\ report[h] = CountHeader(<<report[h][1], "S">>, Len(members))
    /\ h + Min(Len(members), UI_CAP) <= Len(report)
    /\ \A k \in 1..Min(Len(members), UI_CAP) : report[h + k] = ElemLine(members[k])

(* C13: in a rendered report every mapping element is in the sub-section  *)
(* of exactly one category, the first of button, link, input, dropdown,   *)
(* checkbox, other whose test it passes; there is one sub-section per     *)
(* category that has an element, and the sub-sections are in the order in *)
(* which their categories first occur in the element list.                *)
C13_FirstMatchFirstSeen ==
    FullReport =>
        LET elems == DictElems(ReportedUI)
            heads == HeaderPositions(result.val)
        IN  /\ {HeaderCategory(result.val[h]) : h \in heads}
                  = {FirstMatch(elems[i]) : i \in 1..Len(elems)}
            /\ \A a, b \in heads :
                  a < b => FirstIndex(elems, HeaderCategory(result.val[a]))
                              < FirstIndex(elems, HeaderCategory(result.val[b]))
            /\ \A h \in heads :
                  SectionOf(result.val, h, Members(elems, HeaderCategory(result.val[h])))

(* a text field with markup and then a button with markup: the first is a *)
(* link, not an input, the second a button, not a link, and LINKS comes   *)
(* before BUTTONS                                                          *)
C13_Witness ==
    /\ FullReport
    /\ Len(DictElems(ReportedUI)) = 2
    /\ Matches(DictElems(ReportedUI)[1], "input")
    /\ FirstMatch(DictElems(ReportedUI)[1]) = "link"
    /\ Matches(DictElems(ReportedUI)[2], "link")
    /\ FirstMatch(DictElems(ReportedUI)[2]) = "button"
    /\ \E a, b \in HeaderPositions(result.val) :
          /\ a < b
          /\ result.val[a] = <<"LINK", "S", " (", "1", "):">>
          /\ result.val[b] = <<"BUTTON", "S", " (", "1", "):">>

====
